---------------------------- MODULE Spec2Model ----------------------------
(***************************************************************************)
(* A model of bevy_blender: the conversion of a mesh record into an        *)
(* indexed triangle mesh (src/src/mesh.rs), the asset loader               *)
(* (src/src/lib.rs, src/src/material.rs) and the object spawner            *)
(* (src/src/object.rs).                                                    *)
(*                                                                         *)
(* Three programs share the variables below; each has its own              *)
(* specification (SpecMesh, SpecLoad, SpecSpawn) and the variables of the  *)
(* other two stay at their idle values.                                    *)
(***************************************************************************)
EXTENDS Integers, Sequences, FiniteSets, TLC

VARIABLES
    \* ---- instance_to_mesh (src/src/mesh.rs) ----
    instance,       \* the mesh record handed to instance_to_mesh
    blend_version,  \* the (major, minor, patch) version triple
    pc,             \* position inside instance_to_mesh
    fi,             \* position of the `for blender_face` loop (1-based)
    faceloop,       \* the local `faceloop`
    i,              \* the ear-clipping cursor `i`
    faces,          \* the local `faces`
    indices,        \* the local `indices`
    result,         \* what instance_to_mesh returned
    \* ---- load_blend_assets (src/src/lib.rs) ----
    bytes,          \* the buffer handed to the loader
    load_path,      \* load_context.path()
    blend,          \* what Blend::new(bytes) parsed: the records by block code
    lpc,            \* position inside load_blend_assets
    ri,             \* position of the running `for` loop over records (1-based)
    labeled,        \* load_context's labeled assets: label -> asset
    load_result,    \* what load_blend_assets returned
    \* ---- the object spawner (src/src/object.rs) ----
    objects,        \* the OB records of the file in assets/, in file order
    request,        \* the arguments of the running request
    spc,            \* position inside the request
    stack,          \* the running spawn_children_objects loops, innermost first
    commands,       \* the spawns queued on `commands`, each with the locals
                    \* of the call that queued it
    asset_loads,    \* the labels handed to asset_server.load, in order
    spawn_result,   \* what spawn_blender_object_with_error, new or
                    \* new_from_blend returned
    returned,       \* what the caller of the public function got back
    log             \* the messages written with error!

meshVars == <<instance, blend_version, pc, fi, faceloop, i, faces, indices, result>>

loadVars == <<bytes, load_path, blend, lpc, ri, labeled, load_result>>

spawnVars ==
    <<objects, request, spc, stack, commands, asset_loads, spawn_result, returned, log>>

vars == <<meshVars, loadVars, spawnVars>>

-----------------------------------------------------------------------------
(* Bounds of the mesh inputs.                                              *)

\* vertex records per mesh: 0..MaxVerts
MaxVerts == 6
\* longest face loop (totloop)
MaxLoopLen == 7
\* faces per mesh: 0..MaxFaces
MaxFaces == 2

-----------------------------------------------------------------------------
(* Generic helpers.                                                        *)

Range(s) == { s[k] : k \in DOMAIN s }

\* Vec::remove(at) with a 0-based index
RemoveAt(s, at) == SubSeq(s, 1, at) \o SubSeq(s, at + 2, Len(s))

RECURSIVE Concat(_)
Concat(ss) == IF ss = <<>> THEN <<>> ELSE Head(ss) \o Concat(Tail(ss))

RECURSIVE SumSeq(_)
SumSeq(s) == IF s = <<>> THEN 0 ELSE Head(s) + SumSeq(Tail(s))

Abs(n) == IF n < 0 THEN -n ELSE n

Sgn(n) == IF n < 0 THEN -1 ELSE IF n > 0 THEN 1 ELSE 0

\* the exact square root of a perfect square
ISqrt(n) == CHOOSE r \in 0..n : r * r = n

-----------------------------------------------------------------------------
(* f32 vectors.  A Vec3 / [f32; 3] is num/den with an integer numerator    *)
(* triple, or NaN3 once a 0/0 has been computed.  The inputs are chosen so *)
(* that every square root taken is exact.                                  *)

NaN3 == [nan |-> TRUE]

F3(a, b, c) == [num |-> <<a, b, c>>, den |-> 1]

IsNaN(v) == v = NaN3

Zero3 == F3(0, 0, 0)

VSub(a, b) ==
    IF IsNaN(a) \/ IsNaN(b) THEN NaN3
    ELSE F3(a.num[1] - b.num[1], a.num[2] - b.num[2], a.num[3] - b.num[3])

VAdd(a, b) ==
    IF IsNaN(a) \/ IsNaN(b) THEN NaN3
    ELSE F3(a.num[1] + b.num[1], a.num[2] + b.num[2], a.num[3] + b.num[3])

Cross(a, b) ==
    IF IsNaN(a) \/ IsNaN(b) THEN NaN3
    ELSE F3(a.num[2] * b.num[3] - a.num[3] * b.num[2],
            a.num[3] * b.num[1] - a.num[1] * b.num[3],
            a.num[1] * b.num[2] - a.num[2] * b.num[1])

\* Vec3::normalize: v * (1 / |v|); the zero vector gives 0 * (1/0) = NaN
Normalize(v) ==
    IF IsNaN(v) THEN NaN3
    ELSE LET n2 == v.num[1] * v.num[1] + v.num[2] * v.num[2] + v.num[3] * v.num[3]
         IN  IF n2 = 0 THEN NaN3
             ELSE LET r == ISqrt(n2)
                  IN  F3(v.num[1] \div r, v.num[2] \div r, v.num[3] \div r)

-----------------------------------------------------------------------------
(* The mesh records the conversion is run on.                              *)

I16Max == 32767

\* the major versions tried: embedded normals (2) and computed normals (3)
MajorVersions == {2, 3}

\* vertex k (0-based) lies at (k, k*k, 0): no three vertices are collinear
VertexRecord(k) == [co |-> <<k, k * k, 0>>, no |-> <<0, 0, I16Max>>]

\* a face loop over consecutive vertices, wrapping after MaxVerts
LoopFrom(first, len) == [k \in 1..len |-> (first + k - 1) % MaxVerts]

\* the loops start at vertex 0 or, leaving vertex 0 out, at vertex 1; a loop
\* of 2 vertices is too short to be a face
FaceLoops == { LoopFrom(first, len) : first \in {0, 1}, len \in 2..MaxLoopLen }

FaceLists == UNION { [1..n -> FaceLoops] : n \in 0..MaxFaces }

\* mpoly: loopstart is the running total of the earlier faces' totloop
PolyOf(loops) ==
    [f \in 1..Len(loops) |->
        [loopstart |-> SumSeq([g \in 1..(f - 1) |-> Len(loops[g])]),
         totloop   |-> Len(loops[f])]]

MeshRecord(nv, loops, withUV) ==
    LET flat == Concat(loops)
    IN  [type_name |-> "Mesh",
         mpoly     |-> PolyOf(loops),
         mloop     |-> [k \in 1..Len(flat) |-> [v |-> flat[k]]],
         mloopuv   |-> IF withUV THEN [k \in 1..Len(flat) |-> [uv |-> <<k, 1>>]]
                       ELSE <<>>,
         mvert     |-> [k \in 1..nv |-> VertexRecord(k - 1)]]

\* a record of another kind found where a mesh was expected
NotAMesh == [MeshRecord(0, <<>>, FALSE) EXCEPT !.type_name = "Object"]

MeshRecords ==
    { MeshRecord(nv, loops, withUV) :
        nv \in 0..MaxVerts, loops \in FaceLists, withUV \in BOOLEAN }
    \cup {NotAMesh}

-----------------------------------------------------------------------------
(* instance_to_mesh, src/src/mesh.rs:21-141.                               *)

Ok(v) == [kind |-> "Ok", value |-> v]

Err(e) == [kind |-> "Err", error |-> e]

\* an index out of bounds or a failed unwrap: the thread panics
Panic == [kind |-> "Panic"]

\* no value returned yet
Pending == [kind |-> "Pending"]

InvalidInstanceType(expected, found) ==
    [error |-> "InvalidInstanceType", expected |-> expected, found |-> found]

\* mesh.rs:53-58: the loop of one face, or Panic when blender_loops[i] does
\* not exist
FaceLoopOf(inst, face) ==
    LET start == face.loopstart
        end   == start + face.totloop
    IN  IF \E k \in start..(end - 1) : k + 1 > Len(inst.mloop) THEN Panic
        ELSE Ok([k \in 1..(end - start) |-> inst.mloop[start + k].v])

\* mesh.rs:65-88: one pass of the `while faceloop.len() > 3` body, from the
\* remaining loop and the cursor: the ear cut, the loop and the cursor left
\* the pass with `let mut j = i` for `let mut j = i + 1`
EarClipNoSuccessor(fl, cur) ==
    LET i0 == IF cur >= Len(fl) THEN 0 ELSE cur
        i1 == IF i0 + 1 >= Len(fl) THEN 0 ELSE i0 + 1
        j  == i1
    IN  [face     |-> <<fl[i0 + 1], fl[i1 + 1], fl[j + 1]>>,
         faceloop |-> RemoveAt(fl, i1),
         i        |-> i1]

\* the pass that lists the triangle against the direction of the loop
EarClipReversed(fl, cur) ==
    LET i0 == IF cur >= Len(fl) THEN 0 ELSE cur
        i1 == IF i0 + 1 >= Len(fl) THEN 0 ELSE i0 + 1
        j  == IF i1 + 1 >= Len(fl) THEN 0 ELSE i1 + 1
    IN  [face     |-> <<fl[j + 1], fl[i1 + 1], fl[i0 + 1]>>,
         faceloop |-> RemoveAt(fl, i1),
         i        |-> i1]

\* the pass that removes the vertex under the cursor and the first one too
EarClipRemovesTwo(fl, cur) ==
    LET i0 == IF cur >= Len(fl) THEN 0 ELSE cur
        i1 == IF i0 + 1 >= Len(fl) THEN 0 ELSE i0 + 1
        j  == IF i1 + 1 >= Len(fl) THEN 0 ELSE i1 + 1
    IN  [face     |-> <<fl[i0 + 1], fl[i1 + 1], fl[j + 1]>>,
         faceloop |-> RemoveAt(RemoveAt(fl, i1), 0),
         i        |-> i1]

EarClip(fl, cur) ==
    LET i0 == IF cur >= Len(fl) THEN 0 ELSE cur
        i1 == IF i0 + 1 >= Len(fl) THEN 0 ELSE i0 + 1
        j  == IF i1 + 1 >= Len(fl) THEN 0 ELSE i1 + 1
    IN  [face     |-> <<fl[i0 + 1], fl[i1 + 1], fl[j + 1]>>,
         faceloop |-> RemoveAt(fl, i1),
         i        |-> i1]

\* each triangle written once
TriangleIndicesOnce(face) == <<face[3], face[1], face[2]>>

\* mesh.rs:94-99: the six indices pushed for one face
TriangleIndices(face) ==
    <<face[3], face[1], face[2], face[3], face[1], face[2]>>

\* mesh.rs:109-112: positions, Y and Z swapped
Positions(inst) ==
    [k \in 1..Len(inst.mvert) |->
        LET p == inst.mvert[k].co IN F3(p[1], p[3], -p[2])]

\* mesh.rs:34-40 and 116-119: the embedded normals, in units of 1/i16::MAX
EmbeddedNormals(inst) ==
    [k \in 1..Len(inst.mvert) |->
        LET n == inst.mvert[k].no
        IN  [num |-> <<n[1], n[3], -n[2]>>, den |-> I16Max]]

\* mesh.rs:170-174: normals[vertex] += n, the list grown with zero vectors
\* until the index exists
AddNormal(normals, vertex, n) ==
    LET grown == [k \in 1..(IF vertex + 1 > Len(normals) THEN vertex + 1
                            ELSE Len(normals)) |->
                     IF k <= Len(normals) THEN normals[k] ELSE Zero3]
    IN  [grown EXCEPT ![vertex + 1] = VAdd(@, n)]

RECURSIVE AddNormals(_, _, _)
AddNormals(normals, loop, n) ==
    IF loop = <<>> THEN normals
    ELSE AddNormals(AddNormal(normals, Head(loop), n), Tail(loop), n)

\* mesh.rs:151-176: the faces from the f-th on, accumulated into normals;
\* Panic when a loop or a position read does not exist
RECURSIVE AccumulateFaces(_, _, _, _)
AccumulateFaces(inst, positions, f, normals) ==
    IF f > Len(inst.mpoly) THEN Ok(normals)
    ELSE LET fl == FaceLoopOf(inst, inst.mpoly[f])
         IN  IF fl.kind = "Panic" THEN Panic
             ELSE LET loop == fl.value
                  IN  IF Len(loop) < 2 THEN Panic
                      ELSE IF \E k \in {loop[1], loop[2], loop[Len(loop)]} :
                                  k + 1 > Len(positions)
                           THEN Panic
                      ELSE LET v1 == positions[loop[1] + 1]
                               v2 == positions[loop[2] + 1]
                               v3 == positions[loop[Len(loop)] + 1]
                               e1 == VSub(v2, v1)
                               e2 == VSub(v1, v3)
                               n  == Normalize(Cross(e2, e1))
                           IN  AccumulateFaces(inst, positions, f + 1,
                                               AddNormals(normals, loop, n))

\* mesh.rs:144-185
calculate_vertex_normals(inst, positions) ==
    LET acc == AccumulateFaces(inst, positions, 1, <<>>)
    IN  IF acc.kind = "Panic" THEN Panic
        ELSE Ok([k \in 1..Len(acc.value) |-> Normalize(acc.value[k])])

\* mesh.rs:114-124
Normals(inst, version, positions) ==
    IF version[1] <= 2 THEN Ok(EmbeddedNormals(inst))
    ELSE calculate_vertex_normals(inst, positions)

\* mesh.rs:106 and 127-130: the UV of the k-th loop written at that loop's
\* vertex, later loops overwriting earlier ones
RECURSIVE WriteUVs(_, _, _)
WriteUVs(inst, k, uvs) ==
    IF k > Len(inst.mloopuv) THEN Ok(uvs)
    ELSE IF k > Len(inst.mloop) THEN Panic
    ELSE IF inst.mloop[k].v + 1 > Len(uvs) THEN Panic
    ELSE WriteUVs(inst, k + 1, [uvs EXCEPT ![inst.mloop[k].v + 1] = inst.mloopuv[k].uv])

UVs(inst) == WriteUVs(inst, 1, [k \in 1..Len(inst.mvert) |-> <<0, 0>>])

\* mesh.rs:103-140: the attributes and the mesh returned
BuildMesh(inst, version, idx) ==
    LET positions == Positions(inst)
        normals   == Normals(inst, version, positions)
    IN  IF normals.kind = "Panic" THEN Panic
        ELSE LET uvs == UVs(inst)
             IN  IF uvs.kind = "Panic" THEN Panic
                 ELSE Ok([indices   |-> idx,
                          positions |-> positions,
                          normals   |-> normals.value,
                          uvs       |-> uvs.value])

\* mesh.rs:64-91: the triangles of one face loop
RECURSIVE Triangulate(_, _, _)
Triangulate(fl, cur, acc) ==
    IF Len(fl) > 3
    THEN LET step == EarClip(fl, cur)
         IN  Triangulate(step.faceloop, step.i, Append(acc, step.face))
    ELSE Append(acc, fl)

\* mesh.rs:52-101: the index buffer of the faces from the f-th on
RECURSIVE FaceIndices(_, _, _)
FaceIndices(inst, f, idx) ==
    IF f > Len(inst.mpoly) THEN Ok(idx)
    ELSE LET fl == FaceLoopOf(inst, inst.mpoly[f])
         IN  IF fl.kind = "Panic" THEN Panic
             ELSE LET all == Triangulate(fl.value, 0, <<>>)
                  IN  IF \E k \in 1..Len(all) : Len(all[k]) < 3 THEN Panic
                      ELSE FaceIndices(inst, f + 1,
                               idx \o Concat([k \in 1..Len(all) |-> TriangleIndices(all[k])]))

\* mesh.rs:21-141, as the value it returns
instance_to_mesh(inst, version) ==
    IF inst.type_name # "Mesh"
    THEN Err(InvalidInstanceType("Mesh", inst.type_name))
    ELSE LET idx == FaceIndices(inst, 1, <<>>)
         IN  IF idx.kind = "Panic" THEN Panic
             ELSE BuildMesh(inst, version, idx.value)

-----------------------------------------------------------------------------
(* instance_to_mesh as a state machine: one step per pass of its loops.    *)

\* no request is running
IdleSpawn ==
    /\ objects = <<>>
    /\ request = [op |-> "none"]
    /\ spc = "idle"
    /\ stack = <<>>
    /\ commands = <<>>
    /\ asset_loads = <<>>
    /\ spawn_result = Pending
    /\ returned = Pending
    /\ log = <<>>

\* the loader is not running
IdleLoad ==
    /\ bytes = <<>>
    /\ load_path = ""
    /\ blend = [ME |-> <<>>, MA |-> <<>>]
    /\ lpc = "idle"
    /\ ri = 1
    /\ labeled = <<>>
    /\ load_result = Pending

InitMesh ==
    /\ IdleLoad
    /\ IdleSpawn
    /\ instance \in MeshRecords
    /\ blend_version \in { <<major, 0, 0>> : major \in MajorVersions }
    /\ pc = "start"
    /\ fi = 1
    /\ faceloop = <<>>
    /\ i = 0
    /\ faces = <<>>
    /\ indices = <<>>
    /\ result = Pending

\* mesh.rs:26-49
CheckType ==
    /\ pc = "start"
    /\ IF instance.type_name # "Mesh"
       THEN /\ result' = Err(InvalidInstanceType("Mesh", instance.type_name))
            /\ pc' = "done"
       ELSE /\ result' = result
            /\ pc' = "face"
    /\ UNCHANGED <<instance, blend_version, fi, faceloop, i, faces, indices>>
    /\ UNCHANGED <<loadVars, spawnVars>>

\* mesh.rs:52-63: the next face's loop is read and the cursor reset
BeginFace ==
    /\ pc = "face"
    /\ fi <= Len(instance.mpoly)
    /\ LET fl == FaceLoopOf(instance, instance.mpoly[fi])
       IN  IF fl.kind = "Panic"
           THEN /\ result' = Panic
                /\ pc' = "done"
                /\ UNCHANGED <<faceloop, i, faces>>
           ELSE /\ faceloop' = fl.value
                /\ i' = 0
                /\ faces' = <<>>
                /\ pc' = "clip"
                /\ result' = result
    /\ UNCHANGED <<instance, blend_version, fi, indices>>
    /\ UNCHANGED <<loadVars, spawnVars>>

\* mesh.rs:64-89: one pass of the ear-clipping loop
ClipEar ==
    /\ pc = "clip"
    /\ Len(faceloop) > 3
    /\ LET step == EarClip(faceloop, i)
       IN  /\ faces' = Append(faces, step.face)
           /\ faceloop' = step.faceloop
           /\ i' = step.i
    /\ UNCHANGED <<instance, blend_version, pc, fi, indices, result>>
    /\ UNCHANGED <<loadVars, spawnVars>>

\* mesh.rs:91-101: the rest of the loop is the last face, and every face is
\* written to the index buffer; face[2] of a loop shorter than 3 panics
EmitFace ==
    /\ pc = "clip"
    /\ Len(faceloop) <= 3
    /\ LET all == Append(faces, faceloop)
       IN  IF \E k \in 1..Len(all) : Len(all[k]) < 3
           THEN /\ result' = Panic
                /\ pc' = "done"
                /\ UNCHANGED <<faces, indices, fi>>
           ELSE /\ faces' = all
                /\ indices' = indices \o Concat([k \in 1..Len(all) |-> TriangleIndices(all[k])])
                /\ fi' = fi + 1
                /\ pc' = "face"
                /\ result' = result
    /\ UNCHANGED <<instance, blend_version, faceloop, i>>
    /\ UNCHANGED <<loadVars, spawnVars>>

\* mesh.rs:103-140
Finish ==
    /\ pc = "face"
    /\ fi > Len(instance.mpoly)
    /\ result' = BuildMesh(instance, blend_version, indices)
    /\ pc' = "done"
    /\ UNCHANGED <<instance, blend_version, fi, faceloop, i, faces, indices>>
    /\ UNCHANGED <<loadVars, spawnVars>>

NextMesh == CheckType \/ BeginFace \/ ClipEar \/ EmitFace \/ Finish

SpecMesh == InitMesh /\ [][NextMesh]_vars

\* the state machine returns what the function returns
MeshMachineAgrees ==
    pc = "done" => result = instance_to_mesh(instance, blend_version)

-----------------------------------------------------------------------------
(* The buffers and records the loader is run on.                           *)

\* records per block code in a file: 0..MaxRecords
MaxRecords == 2

\* b"BLENDER"
Magic == <<66, 76, 69, 78, 68, 69, 82>>

\* the 12-byte header: the signature, '-' (8-byte pointers), 'v' (little
\* endian) and the version as three ASCII digits
Header(major, minor, patch) ==
    Magic \o <<45, 118, 48 + major, 48 + minor, 48 + patch>>

ValidHeads == { Header(2, 9, 3), Header(3, 0, 0) }

\* buffers without the signature: the header cut short (the empty buffer
\* included), one byte of the signature overwritten, a gzip stream
InvalidHeads ==
    { SubSeq(Header(2, 9, 3), 1, n) : n \in 0..6 }
    \cup { [Header(2, 9, 3) EXCEPT ![k] = 0] : k \in 1..7 }
    \cup { <<31, 139, 8, 0, 0, 0, 0, 0, 0, 3>> }

\* strings whose prefixes matter are sequences of characters
StartsWith(str, prefix) ==
    /\ Len(str) >= Len(prefix)
    /\ SubSeq(str, 1, Len(prefix)) = prefix

MeshNames ==
    { <<"M", "E", "C", "u", "b", "e">>,
      <<"M", "E", "_", "L", "o", "d">>,
      <<"M", "E", "r", "_">> }

MaterialNames ==
    { <<"M", "A", "R", "e", "d">>,
      <<"M", "A", "_", "t", "m", "p">>,
      <<"M", "A", "G", "_">> }

\* a record of the file: the geometry with its id block
Named(rec, name) ==
    [f \in DOMAIN rec \cup {"id"} |-> IF f = "id" THEN [name |-> name] ELSE rec[f]]

\* a triangle, a record of another kind, and a face of two loops (face[2]
\* does not exist)
Geometries ==
    { MeshRecord(3, <<LoopFrom(0, 3)>>, TRUE),
      NotAMesh,
      MeshRecord(2, <<LoopFrom(0, 2)>>, FALSE) }

\* a material's scalars are in tenths: r = 9 is 0.9
MaterialRecord(use_nodes) ==
    [type_name |-> "Material", use_nodes |-> use_nodes,
     r |-> 2, g |-> 4, b |-> 6, a |-> 10,
     roughness |-> 7, metallic |-> 3, spec |-> 5]

MaterialVariants ==
    { MaterialRecord(0), MaterialRecord(1),
      [MaterialRecord(0) EXCEPT !.type_name = "Image"] }

\* the lists of at most MaxRecords records with different names
RecordLists(names, variants) ==
    UNION { { [k \in 1..n |-> Named(vs[k], ns[k])] :
                ns \in { q \in [1..n -> names] :
                            \A a, b \in 1..n : a # b => q[a] # q[b] },
                vs \in [1..n -> variants] } :
            n \in 0..MaxRecords }

\* a buffer: its first bytes and the blocks the parser finds after them
Buffers ==
    { [head |-> h, ME |-> me, MA |-> ma] :
        h \in ValidHeads,
        me \in RecordLists(MeshNames, Geometries),
        ma \in RecordLists(MaterialNames, MaterialVariants) }
    \cup { [head |-> h, ME |-> <<>>, MA |-> <<>>] : h \in InvalidHeads }

Paths == { "demo.blend", "levels/cave.blend" }

-----------------------------------------------------------------------------
(* load_blend_assets, src/src/lib.rs:127-210, and instance_to_material,    *)
(* src/src/material.rs:19-52.                                              *)

InvalidBlendFile(blend_file) ==
    [error |-> "InvalidBlendFile", blend_file |-> blend_file]

UnsupportedAsset(asset_type) ==
    [error |-> "UnsupportedAsset", asset_type |-> asset_type]

\* A StandardMaterial holds the fields the code sets; those it leaves to
\* ..Default::default() are left out.
\* lib.rs:158-163
unsupported_material ==
    [base_color |-> <<9, 4, 3, 10>>, reflectance |-> 1, perceptual_roughness |-> 5]

\* lib.rs:167-172
MissingMaterial ==
    [base_color |-> <<10, 0, 5, 10>>, reflectance |-> 0, perceptual_roughness |-> 0]

\* lib.rs:166
MissingMaterialLabel ==
    <<"b", "e", "v", "y", "_", "b", "l", "e", "n", "d", "e", "r", "_",
      "m", "i", "s", "s", "i", "n", "g", "_",
      "m", "a", "t", "e", "r", "i", "a", "l">>

\* the translation that does not look at use_nodes
instance_to_material_any(inst, version) ==
    IF inst.type_name # "Material"
    THEN Err(InvalidInstanceType("Material", inst.type_name))
    ELSE Ok([base_color |-> <<inst.r, inst.g, inst.b, inst.a>>,
             perceptual_roughness |-> inst.roughness,
             metallic |-> inst.metallic,
             reflectance |-> inst.spec])

\* material.rs:19-52
instance_to_material(inst, version) ==
    IF inst.type_name # "Material"
    THEN Err(InvalidInstanceType("Material", inst.type_name))
    ELSE IF inst.use_nodes = 0
    THEN Ok([base_color |-> <<inst.r, inst.g, inst.b, inst.a>>,
             perceptual_roughness |-> inst.roughness,
             metallic |-> inst.metallic,
             reflectance |-> inst.spec])
    ELSE Err(UnsupportedAsset("Nodes based material"))

\* lib.rs:230-238
get_blend_version(head) == <<head[10] - 48, head[11] - 48, head[12] - 48>>

\* load_context.set_labeled_asset(label, asset)
SetLabeledAsset(assets, label, asset) ==
    [l \in DOMAIN assets \cup {label} |-> IF l = label THEN asset ELSE assets[l]]

\* the mesh conversion is not running
IdleMesh ==
    /\ instance = NotAMesh
    /\ blend_version = <<0, 0, 0>>
    /\ pc = "idle"
    /\ fi = 1
    /\ faceloop = <<>>
    /\ i = 0
    /\ faces = <<>>
    /\ indices = <<>>
    /\ result = Pending

InitLoad ==
    /\ IdleMesh
    /\ IdleSpawn
    /\ bytes \in Buffers
    /\ load_path \in Paths
    /\ blend = [ME |-> <<>>, MA |-> <<>>]
    /\ lpc = "magic"
    /\ ri = 1
    /\ labeled = <<>>
    /\ load_result = Pending

\* lib.rs:131-140: bytes[0..7] panics on a buffer shorter than 7 bytes
CheckMagic ==
    /\ lpc = "magic"
    /\ IF Len(bytes.head) < 7
       THEN /\ load_result' = Panic
            /\ lpc' = "done"
            /\ blend' = blend
       ELSE IF SubSeq(bytes.head, 1, 7) # Magic
       THEN /\ load_result' = Err(InvalidBlendFile(load_path))
            /\ lpc' = "done"
            /\ blend' = blend
       ELSE /\ blend' = [version |-> get_blend_version(bytes.head),
                         ME |-> bytes.ME, MA |-> bytes.MA]
            /\ lpc' = "meshes"
            /\ load_result' = load_result
    /\ UNCHANGED <<bytes, load_path, ri, labeled>>
    /\ UNCHANGED <<meshVars, spawnVars>>

\* lib.rs:143-156: one pass of the loop over the meshes; `?` returns the
\* conversion's error from load_blend_assets
LoadMesh ==
    /\ lpc = "meshes"
    /\ ri <= Len(blend.ME)
    /\ LET mesh  == blend.ME[ri]
           label == mesh.id.name
       IN  IF ~StartsWith(label, <<"M", "E", "_">>)
           THEN LET converted == instance_to_mesh(mesh, blend.version)
                IN  IF converted.kind = "Ok"
                    THEN /\ labeled' = SetLabeledAsset(labeled, label, converted.value)
                         /\ ri' = ri + 1
                         /\ UNCHANGED <<lpc, load_result>>
                    ELSE /\ load_result' = converted
                         /\ lpc' = "done"
                         /\ UNCHANGED <<labeled, ri>>
           ELSE /\ ri' = ri + 1
                /\ UNCHANGED <<labeled, lpc, load_result>>
    /\ UNCHANGED <<bytes, load_path, blend>>
    /\ UNCHANGED <<meshVars, spawnVars>>

\* lib.rs:158-173: after the meshes, the missing-material asset
PublishMissingMaterial ==
    /\ lpc = "meshes"
    /\ ri > Len(blend.ME)
    /\ labeled' = SetLabeledAsset(labeled, MissingMaterialLabel, MissingMaterial)
    /\ lpc' = "materials"
    /\ ri' = 1
    /\ UNCHANGED <<bytes, load_path, blend, load_result>>
    /\ UNCHANGED <<meshVars, spawnVars>>

\* lib.rs:175-205: one pass of the loop over the materials
LoadMaterial ==
    /\ lpc = "materials"
    /\ ri <= Len(blend.MA)
    /\ LET material == blend.MA[ri]
           label    == material.id.name
       IN  IF ~StartsWith(label, <<"M", "A", "_">>)
           THEN LET mat == instance_to_material(material, blend.version)
                IN  IF mat.kind = "Ok"
                    THEN labeled' = SetLabeledAsset(labeled, label, mat.value)
                    ELSE labeled' = SetLabeledAsset(labeled, label, unsupported_material)
           ELSE labeled' = labeled
    /\ ri' = ri + 1
    /\ UNCHANGED <<bytes, load_path, blend, lpc, load_result>>
    /\ UNCHANGED <<meshVars, spawnVars>>

\* lib.rs:209
ReturnOk ==
    /\ lpc = "materials"
    /\ ri > Len(blend.MA)
    /\ load_result' = Ok(<<>>)
    /\ lpc' = "done"
    /\ UNCHANGED <<bytes, load_path, blend, ri, labeled>>
    /\ UNCHANGED <<meshVars, spawnVars>>

NextLoad ==
    CheckMagic \/ LoadMesh \/ PublishMissingMaterial \/ LoadMaterial \/ ReturnOk

SpecLoad == InitLoad /\ [][NextLoad]_vars

-----------------------------------------------------------------------------
(* Mat4 and Transform.  A Mat4 is cols/den: four columns of four integer   *)
(* numerators over one positive denominator, kept in lowest terms, or      *)
(* NonFinite once a division by zero has produced infinities or NaN.  A    *)
(* Transform is (translation, scale)/den with its rotation.                *)

RECURSIVE Gcd(_, _)
Gcd(a, b) == IF b = 0 THEN Abs(a) ELSE Gcd(b, a % Abs(b))

RECURSIVE GcdSeq(_)
GcdSeq(ns) == IF ns = <<>> THEN 0 ELSE Gcd(Head(ns), GcdSeq(Tail(ns)))

NonFinite == [finite |-> FALSE]

IsFinite(m) == "cols" \in DOMAIN m

\* cols/den in lowest terms with den > 0
Mat4(cols, den) ==
    LET g == Gcd(GcdSeq(Concat(cols)), den) * Sgn(den)
    IN  [cols |-> [c \in 1..4 |-> [r \in 1..4 |-> cols[c][r] \div g]],
         den  |-> den \div g]

\* the entry in row r, column c, as a numerator over m.den
At(m, r, c) == m.cols[c][r]

\* object.rs:146-156: the 16 floats of obmat, four per column
get_world_matrix(object) ==
    LET w == object.obmat
    IN  Mat4(<<SubSeq(w, 1, 4), SubSeq(w, 5, 8), SubSeq(w, 9, 12), SubSeq(w, 13, 16)>>, 1)

\* Mat4::mul_mat4
MulMat4(a, b) ==
    IF ~IsFinite(a) \/ ~IsFinite(b) THEN NonFinite
    ELSE Mat4([c \in 1..4 |->
                 [r \in 1..4 |->
                     SumSeq([k \in 1..4 |-> At(a, r, k) * At(b, k, c)])]],
              a.den * b.den)

\* the three indices of 1..4 other than k
Others(k) == SelectSeq(<<1, 2, 3, 4>>, LAMBDA n : n # k)

\* the determinant of the numerators in three rows and three columns
Det3(m, rows, cols) ==
      At(m, rows[1], cols[1]) * (  At(m, rows[2], cols[2]) * At(m, rows[3], cols[3])
                                 - At(m, rows[2], cols[3]) * At(m, rows[3], cols[2]))
    - At(m, rows[1], cols[2]) * (  At(m, rows[2], cols[1]) * At(m, rows[3], cols[3])
                                 - At(m, rows[2], cols[3]) * At(m, rows[3], cols[1]))
    + At(m, rows[1], cols[3]) * (  At(m, rows[2], cols[1]) * At(m, rows[3], cols[2])
                                 - At(m, rows[2], cols[2]) * At(m, rows[3], cols[1]))

Cofactor(m, r, c) ==
    (IF (r + c) % 2 = 0 THEN 1 ELSE -1) * Det3(m, Others(r), Others(c))

\* Mat4::determinant, of the numerators
Determinant(m) == SumSeq([c \in 1..4 |-> At(m, 1, c) * Cofactor(m, 1, c)])

\* Mat4::inverse: the transposed cofactors times 1/det; a zero determinant
\* gives 1/0 and no finite matrix
Inverse(m) ==
    IF ~IsFinite(m) THEN NonFinite
    ELSE LET det == Determinant(m)
         IN  IF det = 0 THEN NonFinite
             ELSE Mat4([c \in 1..4 |-> [r \in 1..4 |-> Cofactor(m, c, r) * m.den]], det)

\* Quat::IDENTITY
IdentityRot == [quat |-> <<0, 0, 0, 1>>]

\* a quaternion computed from a division by a zero scale
NaNRot == [nan |-> TRUE]

\* The inputs drawn hold no rotation: the Euler angles of any other rotation
\* are not modelled, and evaluating them is an error of the evaluation.
UnmodelledRotation == CHOOSE q \in {} : TRUE

\* a transform without a finite component
NonFiniteTransform == [finite |-> FALSE]

\* (translation, scale)/den in lowest terms with den > 0
Transform(translation, rotation, scale, den) ==
    LET g == Gcd(GcdSeq(translation \o scale), den) * Sgn(den)
    IN  [translation |-> [k \in 1..3 |-> translation[k] \div g],
         rotation    |-> rotation,
         scale       |-> [k \in 1..3 |-> scale[k] \div g],
         den         |-> den \div g]

\* Mat4::to_scale_rotation_translation: the scale is the length of the axes,
\* the first with the sign of the determinant; the rotation is the axes over
\* the scale; the translation is the fourth column
Decompose(m) ==
    LET det   == Determinant(m)
        len   == [c \in 1..3 |-> ISqrt(SumSeq([r \in 1..4 |-> At(m, r, c) * At(m, r, c)]))]
        scale == <<len[1] * (IF det < 0 THEN -1 ELSE 1), len[2], len[3]>>
    IN  [scale       |-> scale,
         rotation    |-> IF \E c \in 1..3 : scale[c] = 0 THEN NaNRot
                         ELSE IF \A c \in 1..3 : \A r \in 1..3 :
                                    At(m, r, c) = (IF r = c THEN scale[c] ELSE 0)
                         THEN IdentityRot
                         ELSE UnmodelledRotation,
         translation |-> <<At(m, 1, 4), At(m, 2, 4), At(m, 3, 4)>>,
         den         |-> m.den]

\* lib.rs:215-224: rotation.to_euler(XYZ), then from_euler(XZY, x, -y, z);
\* the angles of the identity are (0, 0, 0) and give the identity back
ConvertRotation(rotation) ==
    IF rotation = NaNRot THEN NaNRot
    ELSE IF rotation = IdentityRot THEN IdentityRot
    ELSE UnmodelledRotation

\* a matrix whose three axes are NaN and whose fourth column is finite: what
\* from_scale_rotation_translation builds from a NaN rotation
NaNAxes(translation, den) ==
    LET g == Gcd(GcdSeq(translation), den) * Sgn(den)
    IN  [nan_axes    |-> TRUE,
         translation |-> [k \in 1..3 |-> translation[k] \div g],
         den         |-> den \div g]

\* Mat4::from_scale_rotation_translation
FromScaleRotationTranslation(scale, rotation, translation, den) ==
    IF rotation = NaNRot THEN NaNAxes(translation, den)
    ELSE IF rotation = IdentityRot
    THEN Mat4(<< <<scale[1], 0, 0, 0>>,
                 <<0, scale[2], 0, 0>>,
                 <<0, 0, scale[3], 0>>,
                 <<translation[1], translation[2], translation[3], den>> >>, den)
    ELSE UnmodelledRotation

\* lib.rs:213-227
right_hand_zup_to_right_hand_yup(rhzup) ==
    IF ~IsFinite(rhzup) THEN NonFinite
    ELSE LET d == Decompose(rhzup)
         IN  FromScaleRotationTranslation(
                 <<d.scale[1], d.scale[3], d.scale[2]>>,
                 ConvertRotation(d.rotation),
                 <<d.translation[1], d.translation[3], -d.translation[2]>>,
                 d.den)

\* Transform::from_matrix; of a matrix with NaN axes only the translation
\* is a number
TransformFromMatrix(m) ==
    IF m = NonFinite THEN NonFiniteTransform
    ELSE IF ~IsFinite(m) THEN m
    ELSE LET d == Decompose(m)
         IN  Transform(d.translation, d.rotation, d.scale, d.den)

-----------------------------------------------------------------------------
(* The object records and the requests the spawner is run on.              *)

\* the depth of nested spawn_children_objects calls at which the native
\* stack is taken to be exhausted; a set of three objects without a parent
\* cycle nests three calls at most
MaxDepth == 4

None == [some |-> FALSE]

Some(v) == [some |-> TRUE, value |-> v]

\* a null pointer field: is_valid is false and get / get_iter panic
Null == [valid |-> FALSE]

\* scenes/a.blend is in assets/, scenes/b.blend is not
SceneFile == <<"a", ".", "b", "l", "e", "n", "d">>

AbsentFile == <<"b", ".", "b", "l", "e", "n", "d">>

ObjectNames == << <<"O", "B", "A">>, <<"O", "B", "B">>, <<"O", "B", "C">> >>

\* the names a caller asks for: the three objects, an object that is not in
\* the file, and an id name with its block code
RootNames == { <<"A">>, <<"B">>, <<"C">>, <<"X">>, <<"O", "B", "A">> }

\* obmat, 16 floats: a translation; a scale with a translation; a matrix
\* with a zero axis
ObmatPool ==
    << <<1, 0, 0, 0,   0, 1, 0, 0,   0, 0, 1, 0,   1, 2, 3, 1>>,
       <<2, 0, 0, 0,   0, 3, 0, 0,   0, 0, 4, 0,   4, 0, -2, 1>>,
       <<0, 0, 0, 0,   0, 1, 0, 0,   0, 0, 1, 0,   0, 0, 1, 1>> >>

MaterialSlot(name, use_nodes) == [id |-> [name |-> name], use_nodes |-> use_nodes]

\* the data of an object: a mesh with one slot, a mesh whose first slot is
\* node based, a mesh without a material array, a mesh with an empty one,
\* and no data at all (an empty)
DataPool ==
    << [valid |-> TRUE, id |-> [name |-> <<"M", "E", "C", "u", "b", "e">>],
        mat |-> [valid |-> TRUE,
                 items |-> <<MaterialSlot(<<"M", "A", "R", "e", "d">>, 0)>>]],
       [valid |-> TRUE, id |-> [name |-> <<"M", "E", "C", "u", "b", "e">>],
        mat |-> [valid |-> TRUE,
                 items |-> <<MaterialSlot(<<"M", "A", "G", "_">>, 1),
                             MaterialSlot(<<"M", "A", "R", "e", "d">>, 0)>>]],
       [valid |-> TRUE, id |-> [name |-> <<"M", "E", "_", "L", "o", "d">>],
        mat |-> Null],
       [valid |-> TRUE, id |-> [name |-> <<"M", "E", "r", "_">>],
        mat |-> [valid |-> TRUE, items |-> <<>>]],
       Null >>

\* which data the objects A, B, C have
DataAssignments == { <<1, 2, 4>>, <<3, 1, 5>>, <<2, 4, 1>> }

\* which obmat the objects A, B, C have
ObmatAssignments == { <<a, b, 2>> : a, b \in 1..3 }

\* the parent of each object (0: none); cycles of parents are drawn too
ParentMaps == { p \in [1..3 -> 0..3] : \A k \in 1..3 : p[k] # k }

ObjectRecord(k, parents, data, obmats) ==
    [id     |-> [name |-> ObjectNames[k]],
     parent |-> IF parents[k] = 0 THEN Null
                ELSE [valid |-> TRUE, id |-> [name |-> ObjectNames[parents[k]]]],
     data   |-> DataPool[data[k]],
     obmat  |-> ObmatPool[obmats[k]]]

ObjectSets ==
    { [k \in 1..3 |-> ObjectRecord(k, parents, data, obmats)] :
        parents \in ParentMaps, data \in DataAssignments, obmats \in ObmatAssignments }

\* Transform::from_scale(Vec3::new(0.5, 0.5, 0.5)) with a translation of
\* (4, 0, 0)
OverrideTransform == Transform(<<8, 0, 0>>, IdentityRot, <<1, 1, 1>>, 2)

Requests ==
    { [op |-> "spawn", blender_file |-> f, root_object_name |-> n,
       spawn_children |-> c, parent_transform |-> t] :
        f \in {SceneFile, AbsentFile}, n \in RootNames, c \in BOOLEAN,
        t \in {None, Some(OverrideTransform)} }
    \cup { [op |-> "new", blender_file |-> f, root_object_name |-> n] :
        f \in {SceneFile, AbsentFile}, n \in RootNames }
    \cup { [op |-> "new_from_blend", blender_file |-> SceneFile, root_object_name |-> n] :
        n \in RootNames }

-----------------------------------------------------------------------------
(* object.rs: spawn_blender_object_with_error, spawn_children_objects,     *)
(* BlenderObjectBundle::new and new_from_blend.                            *)

MissingAsset(asset_name, blend_file) ==
    [error |-> "MissingAsset", asset_name |-> asset_name, blend_file |-> blend_file]

\* the infinite recursion of spawn_children_objects ends the process
StackOverflow == [kind |-> "StackOverflow"]

\* format!("{}#{}", blender_file, name)
Label(blender_file, name) == blender_file \o <<"#">> \o name

\* the handle asset_server.load returns for a label
Handle(label) == [path |-> label]

\* Handle::default()
DefaultHandle == [default |-> TRUE]

\* the lookup that falls back on the first object of the file
get_object_or_first(obs, name) ==
    LET found == SelectSeq(obs, LAMBDA obj : obj.id.name = name)
    IN  IF found # <<>> THEN Some(Head(found))
        ELSE IF obs # <<>> THEN Some(Head(obs)) ELSE None

\* object.rs:121-129
get_object_by_name(obs, name) ==
    LET found == SelectSeq(obs, LAMBDA obj : obj.id.name = name)
    IN  IF found = <<>> THEN None ELSE Some(Head(found))

\* object.rs:132-142
get_children(obs, name) ==
    SelectSeq(obs, LAMBDA obj : obj.parent.valid /\ obj.parent.id.name = name)

\* the root transform that does not look at parent_transform
RootTransformOfSource(parent_transform, world_matrix) ==
    TransformFromMatrix(right_hand_zup_to_right_hand_yup(world_matrix))

\* object.rs:240-246
RootTransform(parent_transform, world_matrix) ==
    IF parent_transform.some THEN parent_transform.value
    ELSE TransformFromMatrix(right_hand_zup_to_right_hand_yup(world_matrix))

\* object.rs:225-236: the material label of the root
RootMaterialLabel(blender_file, data) ==
    IF data.mat.valid /\ data.mat.items # <<>>
    THEN Label(blender_file, Head(data.mat.items).id.name)
    ELSE Label(blender_file, MissingMaterialLabel)

\* object.rs:297-303: the material label of a child, whose material array
\* is not null
ChildMaterialLabel(blender_file, data) ==
    IF data.mat.items # <<>>
    THEN Label(blender_file, Head(data.mat.items).id.name)
    ELSE Label(blender_file, MissingMaterialLabel)

\* the product taken in the other order
LocalMatrixReversed(parent_matrix, world_matrix) ==
    MulMat4(world_matrix, Inverse(parent_matrix))

\* object.rs:309
LocalMatrix(parent_matrix, world_matrix) ==
    MulMat4(Inverse(parent_matrix), world_matrix)

\* a running `for child in get_children(..)` loop: the children left, the
\* entity they are spawned under and the parent_matrix they are given
Frame(children, parent, parent_matrix) ==
    [children |-> children, parent |-> parent, parent_matrix |-> parent_matrix]

\* a spawn queued on `commands`: the bundle, the entity it is a child of
\* (0: none), and the locals of the call that queued it
Spawned(parent, bundle, obj, parent_matrix, local_matrix) ==
    [parent |-> parent, bundle |-> bundle, obj |-> obj,
     parent_matrix |-> parent_matrix, local_matrix |-> local_matrix]

Bundle(mesh, material, transform) ==
    [mesh |-> mesh, material |-> material, transform |-> transform]

\* object.rs:164-185: spawn_blender_object logs the error of
\* spawn_blender_object_with_error and returns (); new and new_from_blend
\* return their result; a panic or a stack overflow returns nothing
Returned(op, res) ==
    IF op = "spawn" /\ res.kind \in {"Ok", "Err"} THEN Ok("unit") ELSE res

\* object.rs:181-183
Logged(op, res) ==
    IF op = "spawn" /\ res.kind = "Err" THEN <<res.error>> ELSE <<>>

InitSpawn ==
    /\ IdleMesh
    /\ IdleLoad
    /\ objects \in ObjectSets
    /\ request \in Requests
    /\ spc = IF request.op = "new_from_blend" THEN "lookup" ELSE "read"
    /\ stack = <<>>
    /\ commands = <<>>
    /\ asset_loads = <<>>
    /\ spawn_result = Pending
    /\ returned = Pending
    /\ log = <<>>

\* object.rs:54-58, 196-200: Blend::from_path panics on a file it cannot read
ReadBlend ==
    /\ spc = "read"
    /\ IF request.blender_file = SceneFile
       THEN /\ spc' = "lookup"
            /\ UNCHANGED spawn_result
       ELSE /\ spc' = "done"
            /\ spawn_result' = Panic
    /\ UNCHANGED <<objects, request, stack, commands, asset_loads>>
    /\ returned' = IF spc' = "done" THEN Returned(request.op, spawn_result') ELSE returned
    /\ log' = IF spc' = "done" THEN log \o Logged(request.op, spawn_result') ELSE log
    /\ UNCHANGED <<meshVars, loadVars>>

\* object.rs:203-273: the root; the closure of with_children starts the loop
\* over the root's children
SpawnRoot ==
    /\ spc = "lookup"
    /\ request.op = "spawn"
    /\ LET name  == <<"O", "B">> \o request.root_object_name
           found == get_object_by_name(objects, name)
           obj   == found.value
           mesh  == Label(request.blender_file, obj.data.id.name)
           material == RootMaterialLabel(request.blender_file, obj.data)
           world_matrix == get_world_matrix(obj)
           transform == RootTransform(request.parent_transform, world_matrix)
       IN  IF ~found.some
           THEN /\ spawn_result' = Err(MissingAsset(request.root_object_name,
                                                    request.blender_file))
                /\ spc' = "done"
                /\ UNCHANGED <<stack, commands, asset_loads>>
           ELSE IF ~obj.data.valid
           THEN /\ spawn_result' = Panic
                /\ spc' = "done"
                /\ UNCHANGED <<stack, commands, asset_loads>>
           ELSE /\ asset_loads' = asset_loads \o <<mesh, material>>
                /\ commands' = commands \o
                       <<Spawned(0, Bundle(Handle(mesh), Handle(material), transform),
                                 obj, None, None)>>
                /\ stack' = IF request.spawn_children
                            THEN <<Frame(get_children(objects, name),
                                         Len(commands) + 1, world_matrix)>>
                            ELSE <<>>
                /\ spc' = "children"
                /\ UNCHANGED spawn_result
    /\ UNCHANGED <<objects, request>>
    /\ returned' = IF spc' = "done" THEN Returned(request.op, spawn_result') ELSE returned
    /\ log' = IF spc' = "done" THEN log \o Logged(request.op, spawn_result') ELSE log
    /\ UNCHANGED <<meshVars, loadVars>>

\* object.rs:277-334: one call of spawn_children_objects, up to the loop
\* over the children of its object
SpawnChild ==
    /\ spc = "children"
    /\ stack # <<>>
    /\ Head(stack).children # <<>>
    /\ LET frame == Head(stack)
           obj   == Head(frame.children)
           rest  == [frame EXCEPT !.children = Tail(frame.children)]
           mesh  == Label(request.blender_file, obj.data.id.name)
           material == ChildMaterialLabel(request.blender_file, obj.data)
           world_matrix == get_world_matrix(obj)
           local_matrix == LocalMatrix(frame.parent_matrix, world_matrix)
           transform == TransformFromMatrix(right_hand_zup_to_right_hand_yup(local_matrix))
       IN  IF Len(stack) >= MaxDepth
           THEN /\ spawn_result' = StackOverflow
                /\ spc' = "done"
                /\ UNCHANGED <<stack, commands, asset_loads>>
           ELSE IF ~obj.data.valid
           THEN /\ spawn_result' = Panic
                /\ spc' = "done"
                /\ UNCHANGED <<stack, commands, asset_loads>>
           ELSE IF ~obj.data.mat.valid
           THEN /\ asset_loads' = asset_loads \o <<mesh>>
                /\ spawn_result' = Panic
                /\ spc' = "done"
                /\ UNCHANGED <<stack, commands>>
           ELSE /\ asset_loads' = asset_loads \o <<mesh, material>>
                /\ commands' = commands \o
                       <<Spawned(frame.parent,
                                 Bundle(Handle(mesh), Handle(material), transform),
                                 obj, Some(frame.parent_matrix), Some(local_matrix))>>
                /\ stack' = <<Frame(get_children(objects, obj.id.name),
                                    Len(commands) + 1, world_matrix)>>
                            \o <<rest>> \o Tail(stack)
                /\ UNCHANGED <<spc, spawn_result>>
    /\ UNCHANGED <<objects, request>>
    /\ returned' = IF spc' = "done" THEN Returned(request.op, spawn_result') ELSE returned
    /\ log' = IF spc' = "done" THEN log \o Logged(request.op, spawn_result') ELSE log
    /\ UNCHANGED <<meshVars, loadVars>>

\* the `for child` loop of a call is over: the call returns
EndChildren ==
    /\ spc = "children"
    /\ stack # <<>>
    /\ Head(stack).children = <<>>
    /\ stack' = Tail(stack)
    /\ UNCHANGED <<objects, request, spc, commands, asset_loads, spawn_result>>
    /\ returned' = IF spc' = "done" THEN Returned(request.op, spawn_result') ELSE returned
    /\ log' = IF spc' = "done" THEN log \o Logged(request.op, spawn_result') ELSE log
    /\ UNCHANGED <<meshVars, loadVars>>

\* object.rs:273
SpawnReturn ==
    /\ spc = "children"
    /\ stack = <<>>
    /\ spawn_result' = Ok("unit")
    /\ spc' = "done"
    /\ UNCHANGED <<objects, request, stack, commands, asset_loads>>
    /\ returned' = IF spc' = "done" THEN Returned(request.op, spawn_result') ELSE returned
    /\ log' = IF spc' = "done" THEN log \o Logged(request.op, spawn_result') ELSE log
    /\ UNCHANGED <<meshVars, loadVars>>

\* object.rs:65-116
NewFromBlend ==
    /\ spc = "lookup"
    /\ request.op \in {"new", "new_from_blend"}
    /\ LET found == get_object_by_name(objects, <<"O", "B">> \o request.root_object_name)
           obj   == found.value
           first == Head(obj.data.mat.items)
           material_label == Label(request.blender_file, first.id.name)
           loads_material == obj.data.mat.items # <<>> /\ first.use_nodes = 0
           mesh  == Label(request.blender_file, obj.data.id.name)
           transform == TransformFromMatrix(
                            right_hand_zup_to_right_hand_yup(get_world_matrix(obj)))
       IN  IF ~found.some
           THEN /\ spawn_result' = Err(MissingAsset(request.root_object_name,
                                                    request.blender_file))
                /\ UNCHANGED asset_loads
           ELSE IF ~obj.data.valid \/ ~obj.data.mat.valid
           THEN /\ spawn_result' = Panic
                /\ UNCHANGED asset_loads
           ELSE /\ asset_loads' = asset_loads
                                  \o (IF loads_material THEN <<material_label>> ELSE <<>>)
                                  \o <<mesh>>
                /\ spawn_result' =
                       Ok(Bundle(Handle(mesh),
                                 IF loads_material THEN Handle(material_label)
                                 ELSE DefaultHandle,
                                 transform))
    /\ spc' = "done"
    /\ UNCHANGED <<objects, request, stack, commands>>
    /\ returned' = IF spc' = "done" THEN Returned(request.op, spawn_result') ELSE returned
    /\ log' = IF spc' = "done" THEN log \o Logged(request.op, spawn_result') ELSE log
    /\ UNCHANGED <<meshVars, loadVars>>

NextSpawn ==
    ReadBlend \/ SpawnRoot \/ SpawnChild \/ EndChildren \/ SpawnReturn \/ NewFromBlend

SpecSpawn == InitSpawn /\ [][NextSpawn]_vars

-----------------------------------------------------------------------------
(* A file that is loaded and spawned from: the ME and MA records are the   *)
(* ones the OB records point at.                                           *)

\* the sequence without the repetitions of its elements
RECURSIVE Dedup(_)
Dedup(s) ==
    IF s = <<>> THEN <<>>
    ELSE LET rest == Dedup(SubSeq(s, 1, Len(s) - 1))
             last == s[Len(s)]
         IN  IF \E k \in DOMAIN rest : rest[k] = last THEN rest ELSE Append(rest, last)

\* the ME blocks of the file: one triangle mesh for each mesh an object has
\* as its data
SceneMeshes(obs) ==
    LET with  == SelectSeq(obs, LAMBDA obj : obj.data.valid)
        names == Dedup([k \in 1..Len(with) |-> with[k].data.id.name])
    IN  [k \in 1..Len(names) |->
            Named(MeshRecord(3, <<LoopFrom(0, 3)>>, TRUE), names[k])]

\* the MA blocks of the file: the materials in the slots of those meshes
SceneMaterials(obs) ==
    LET with  == SelectSeq(obs, LAMBDA obj : obj.data.valid /\ obj.data.mat.valid)
        slots == Dedup(Concat([k \in 1..Len(with) |-> with[k].data.mat.items]))
    IN  [k \in 1..Len(slots) |->
            Named(MaterialRecord(slots[k].use_nodes), slots[k].id.name)]

\* the object sets of the files: every parent map and data assignment
SceneObjectSets ==
    { [k \in 1..3 |-> ObjectRecord(k, parents, data, <<1, 2, 2>>)] :
        parents \in ParentMaps, data \in DataAssignments }

SceneRequests ==
    { [op |-> "spawn", blender_file |-> SceneFile, root_object_name |-> n,
       spawn_children |-> c, parent_transform |-> None] :
        n \in RootNames, c \in BOOLEAN }

\* the asset server is asked for the file, and a spawn request names it
InitScene ==
    /\ IdleMesh
    /\ objects \in SceneObjectSets
    /\ request \in SceneRequests
    /\ \E h \in ValidHeads :
          bytes = [head |-> h, ME |-> SceneMeshes(objects), MA |-> SceneMaterials(objects)]
    /\ load_path = request.blender_file
    /\ blend = [ME |-> <<>>, MA |-> <<>>]
    /\ lpc = "magic"
    /\ ri = 1
    /\ labeled = <<>>
    /\ load_result = Pending
    /\ spc = "read"
    /\ stack = <<>>
    /\ commands = <<>>
    /\ asset_loads = <<>>
    /\ spawn_result = Pending
    /\ returned = Pending
    /\ log = <<>>

\* the load and the request do not share a variable; the request is run
\* after the load
NextScene ==
    \/ CheckMagic
    \/ LoadMesh
    \/ PublishMissingMaterial
    \/ LoadMaterial
    \/ ReturnOk
    \/ (lpc = "done" /\ ReadBlend)
    \/ (lpc = "done" /\ SpawnRoot)
    \/ (lpc = "done" /\ SpawnChild)
    \/ (lpc = "done" /\ EndChildren)
    \/ (lpc = "done" /\ SpawnReturn)

SpecScene == InitScene /\ [][NextScene]_vars

-----------------------------------------------------------------------------
(* Properties of instance_to_mesh.                                         *)

Distinct(s) == \A a, b \in DOMAIN s : a # b => s[a] # s[b]

\* the face whose triangles `faces` holds: the one EmitFace has just written
FaceEmitted == pc = "face" /\ fi > 1

EmittedLoop == FaceLoopOf(instance, instance.mpoly[fi - 1]).value

\* C1: for every face whose loop has length L >= 3 and pairwise distinct
\* vertex indices, the triangulation emits exactly L-2 triangles, and the
\* three vertex indices of every emitted triangle are pairwise distinct and
\* all belong to that face's loop.
C1_Triangulation ==
    (FaceEmitted /\ Len(EmittedLoop) >= 3 /\ Distinct(EmittedLoop)) =>
        /\ Len(faces) = Len(EmittedLoop) - 2
        /\ \A t \in DOMAIN faces :
              /\ Len(faces[t]) = 3
              /\ Distinct(faces[t])
              /\ Range(faces[t]) \subseteq Range(EmittedLoop)

\* a loop of 6 distinct vertices, whose clipping wraps the cursor, has been
\* cut into 4 triangles
C1_Witness ==
    /\ FaceEmitted
    /\ Len(EmittedLoop) = 6
    /\ Distinct(EmittedLoop)
    /\ Len(faces) = 4

\* the sum of L-2 over the first n faces of the record
RECURSIVE TrianglesBefore(_)
TrianglesBefore(n) ==
    IF n = 0 THEN 0 ELSE (instance.mpoly[n].totloop - 2) + TrianglesBefore(n - 1)

\* C2: every emitted triangle (f0,f1,f2) is appended to the index buffer as
\* the six values f2,f0,f1,f2,f0,f1, so a face with loop length L >= 3
\* contributes exactly 6*(L-2) indices and the whole index buffer has length
\* 6 * (sum over the faces of L-2), a multiple of 6.
C2_IndexBuffer ==
    /\ FaceEmitted =>
          LET n    == Len(faces)
              base == Len(indices) - 6 * n
          IN  /\ n = Len(EmittedLoop) - 2
              /\ base >= 0
              /\ \A t \in 1..n :
                    SubSeq(indices, base + 6 * (t - 1) + 1, base + 6 * t) =
                        <<faces[t][3], faces[t][1], faces[t][2],
                          faces[t][3], faces[t][1], faces[t][2]>>
              /\ Len(indices) = 6 * TrianglesBefore(fi - 1)
    /\ result.kind = "Ok" =>
          /\ Len(result.value.indices) = 6 * TrianglesBefore(Len(instance.mpoly))
          /\ Len(result.value.indices) % 6 = 0

\* a mesh of two faces, a pentagon among them, has been returned with a
\* non-empty index buffer
C2_Witness ==
    /\ result.kind = "Ok"
    /\ Len(instance.mpoly) = 2
    /\ \E f \in 1..2 : instance.mpoly[f].totloop = 5
    /\ Len(result.value.indices) >= 24

\* C3: for every mesh record and every format version the mesh returned by
\* instance_to_mesh has exactly one normal per vertex, also when some
\* vertices are referenced by no face.
C3_OneNormalPerVertex ==
    result.kind = "Ok" =>
        Len(result.value.normals) = Len(result.value.positions)

-----------------------------------------------------------------------------
(* Properties of load_blend_assets.                                        *)

\* the name begins with an underscore after the 2-letter kind prefix
Underscored(name) == Len(name) >= 3 /\ name[3] = "_"

Published == DOMAIN labeled

LoadReturned == lpc = "done"

\* the version the header of the buffer states
HeaderVersion == <<bytes.head[10] - 48, bytes.head[11] - 48, bytes.head[12] - 48>>

\* the k-th mesh record is converted and its conversion returns an error
MeshFails(k) ==
    /\ ~Underscored(bytes.ME[k].id.name)
    /\ instance_to_mesh(bytes.ME[k], HeaderVersion).kind = "Err"

\* the k-th mesh record is skipped or converts to a mesh
MeshSound(k) ==
    \/ Underscored(bytes.ME[k].id.name)
    \/ instance_to_mesh(bytes.ME[k], HeaderVersion).kind = "Ok"

\* C4: when one mesh record of a file fails conversion (instance_to_mesh
\* returns an error), the remaining mesh records, the fallback material and
\* the material records of the file are still processed and published.
C4_MeshFailureConfined ==
    \A k \in DOMAIN bytes.ME :
        (/\ LoadReturned
         /\ MeshFails(k)
         /\ \A j \in DOMAIN bytes.ME \ {k} : MeshSound(j)) =>
            /\ \A j \in DOMAIN bytes.ME \ {k} :
                  ~Underscored(bytes.ME[j].id.name) => bytes.ME[j].id.name \in Published
            /\ MissingMaterialLabel \in Published
            /\ \A m \in DOMAIN bytes.MA :
                  ~Underscored(bytes.MA[m].id.name) => bytes.MA[m].id.name \in Published

\* the k-th material record is a material with the node-graph flag set and
\* a name that does not start with an underscore
NodeMaterial(k) ==
    /\ bytes.MA[k].type_name = "Material"
    /\ bytes.MA[k].use_nodes # 0
    /\ ~Underscored(bytes.MA[k].id.name)

\* the material the loader substitutes: rgb(0.9, 0.4, 0.3), reflectance 0.1,
\* roughness 0.5
SubstituteMaterial ==
    [base_color |-> <<9, 4, 3, 10>>, reflectance |-> 1, perceptual_roughness |-> 5]

\* the material under bevy_blender_missing_material: rgb(1.0, 0.0, 0.5),
\* reflectance 0, roughness 0
FallbackMaterial ==
    [base_color |-> <<10, 0, 5, 10>>, reflectance |-> 0, perceptual_roughness |-> 0]

C6_UnderscoreFilter ==
    LoadReturned =>
        /\ \A k \in DOMAIN bytes.ME :
              bytes.ME[k].id.name \in Published <=> ~Underscored(bytes.ME[k].id.name)
        /\ \A k \in DOMAIN bytes.MA :
              bytes.MA[k].id.name \in Published <=> ~Underscored(bytes.MA[k].id.name)

\* the buffer begins with the 7 bytes of "BLENDER"
HasSignature ==
    /\ Len(bytes.head) >= 7
    /\ \A k \in 1..7 : bytes.head[k] = <<66, 76, 69, 78, 68, 69, 82>>[k]

\* C8: for every buffer that does not begin with the 7-byte signature,
\* buffers shorter than 7 bytes and the empty buffer included,
\* load_blend_assets returns the InvalidBlendFile error naming the file path
\* and publishes no asset.
C8_InvalidBlendFile ==
    (LoadReturned /\ ~HasSignature) =>
        /\ load_result =
              [kind |-> "Err",
               error |-> [error |-> "InvalidBlendFile", blend_file |-> load_path]]
        /\ Published = {}

-----------------------------------------------------------------------------
(* Properties of the object spawner.                                       *)

\* the id name the request looks up
RootIdName == <<"O", "B">> \o request.root_object_name

\* no object record has the id name the request looks up
UnknownRoot == \A k \in 1..Len(objects) : objects[k].id.name # RootIdName

\* the request got hold of the object records: new_from_blend is handed
\* them, the other two read the file
BlendRead ==
    /\ spc # "read"
    /\ ~(request.op \in {"spawn", "new"} /\ request.blender_file # SceneFile)

\* C7: a spawn request or a bundle construction whose root object name
\* matches no object record returns the MissingAsset error carrying that
\* name and file, spawns no entity and requests no mesh or material asset.
C7_MissingRoot ==
    (request.op \in {"spawn", "new", "new_from_blend"} /\ UnknownRoot) =>
        /\ commands = <<>>
        /\ asset_loads = <<>>
        /\ (spc = "done" /\ BlendRead) =>
               spawn_result = Err([error      |-> "MissingAsset",
                                   asset_name |-> request.root_object_name,
                                   blend_file |-> request.blender_file])

\* a spawn request for the id name OBA, which names no record, has returned
C7_Witness ==
    /\ request.op = "spawn"
    /\ request.spawn_children
    /\ request.root_object_name = <<"O", "B", "A">>
    /\ UnknownRoot
    /\ spc = "done"
    /\ spawn_result.kind = "Err"

\* the record the request names
RootObject == CHOOSE obj \in Range(objects) : obj.id.name = RootIdName

\* C9: in a spawn request the root entity's transform is the override when
\* one is supplied and the conversion of the root's source world matrix
\* otherwise; in both cases the local matrix of each direct child is
\* computed against the root's source world matrix.
C9_RootTransform ==
    request.op = "spawn" =>
        \A k \in 1..Len(commands) :
            LET e == commands[k]
                W == get_world_matrix(RootObject)
            IN  /\ e.parent = 0 =>
                       e.bundle.transform =
                           IF request.parent_transform.some
                           THEN request.parent_transform.value
                           ELSE TransformFromMatrix(right_hand_zup_to_right_hand_yup(W))
                /\ e.parent = 1 =>
                       /\ e.parent_matrix = Some(W)
                       /\ e.local_matrix =
                              Some(MulMat4(Inverse(W), get_world_matrix(e.obj)))
                       /\ e.bundle.transform =
                              TransformFromMatrix(
                                  right_hand_zup_to_right_hand_yup(e.local_matrix.value))

\* a spawn with an override that differs from the converted source matrix
\* has spawned the root and a direct child of it
C9_Witness ==
    /\ request.op = "spawn"
    /\ spc = "done"
    /\ spawn_result.kind = "Ok"
    /\ request.parent_transform.some
    /\ \E k \in 1..Len(commands) :
           /\ commands[k].parent = 1
           /\ IsFinite(commands[k].local_matrix.value)
    /\ commands[1].bundle.transform = OverrideTransform
    /\ OverrideTransform #
           TransformFromMatrix(
               right_hand_zup_to_right_hand_yup(get_world_matrix(RootObject)))

Invertible(m) == IsFinite(m) /\ Determinant(m) # 0

\* C10: for an invertible parent world matrix P and a child world matrix C,
\* the local matrix L of spawn_children_objects satisfies P * L = C, and the
\* parent matrix given to the children of a child is that child's own world
\* matrix.  The product is the exact one: the rounding of f32 is not
\* modelled.
C10_LocalMatrix ==
    \A k \in 1..Len(commands) :
        LET e == commands[k]
        IN  e.parent > 0 =>
                LET P == e.parent_matrix.value
                    C == get_world_matrix(e.obj)
                    L == e.local_matrix.value
                IN  /\ Invertible(P) => MulMat4(P, L) = C
                    /\ commands[e.parent].parent > 0 =>
                           P = get_world_matrix(commands[e.parent].obj)

\* a child of a child has been spawned against an invertible matrix, and
\* neither the local matrix of its parent nor its own is a world matrix
C10_Witness ==
    \E k \in 1..Len(commands) :
        LET e == commands[k]
        IN  /\ e.parent > 1
            /\ Invertible(e.parent_matrix.value)
            /\ e.local_matrix.value # get_world_matrix(e.obj)
            /\ IsFinite(commands[e.parent].local_matrix.value)
            /\ commands[e.parent].local_matrix.value # e.parent_matrix.value


\* the matrices right_hand_zup_to_right_hand_yup was given, each with the
\* transform made of its result: the world matrix of a root without an
\* override and the local matrix of every child
Converted ==
    { [source |-> get_world_matrix(commands[k].obj), transform |-> commands[k].bundle.transform] :
        k \in { n \in 1..Len(commands) :
                   commands[n].parent = 0 /\ ~request.parent_transform.some } }
    \cup { [source |-> commands[k].local_matrix.value, transform |-> commands[k].bundle.transform] :
        k \in { n \in 1..Len(commands) : commands[n].parent > 0 } }
    \cup { [source |-> get_world_matrix(RootObject), transform |-> spawn_result.value.transform] :
        k \in { n \in {1} : request.op \in {"new", "new_from_blend"}
                                /\ spawn_result.kind = "Ok" } }

C11_AxisSwapOfInvertible ==
    \A c \in Converted :
        Invertible(c.source) =>
            LET m == c.source
                t == c.transform
            IN  /\ DOMAIN t = {"translation", "rotation", "scale", "den"}
                /\ t.translation[1] * m.den = t.den * At(m, 1, 4)
                /\ t.translation[2] * m.den = t.den * At(m, 3, 4)
                /\ t.translation[3] * m.den = - t.den * At(m, 2, 4)
                /\ t.scale[1] * m.den = t.den * At(m, 1, 1)
                /\ t.scale[2] * m.den = t.den * At(m, 3, 3)
                /\ t.scale[3] * m.den = t.den * At(m, 2, 2)


\* C12: every failure of spawn_blender_object, BlenderObjectBundle::new or
\* new_from_blend reaches the caller as an error value it can inspect, and
\* none aborts the process.
C12_FailureReturned ==
    (spc = "done" /\ spawn_result.kind # "Ok") => returned.kind = "Err"

\* the failures that abort, and the ones the caller cannot see
C12_NoAbort ==
    spc = "done" => spawn_result.kind \in {"Ok", "Err"}

C12_ErrorVisible ==
    (spc = "done" /\ spawn_result.kind = "Err") => returned = spawn_result

\* the id names of the objects resolved from the root down to the k-th spawn
RECURSIVE PathOf(_)
PathOf(k) ==
    IF k = 0 THEN <<>>
    ELSE PathOf(commands[k].parent) \o <<commands[k].obj.id.name>>

\* C13: for every object set, one with a cycle of parents included, a spawn
\* request with children terminates, and no object name is resolved a second
\* time on the path from the root to a resolved object.
C13_NoRevisit ==
    (request.op = "spawn" /\ request.spawn_children) =>
        /\ spawn_result # StackOverflow
        /\ \A k \in 1..Len(commands) : Distinct(PathOf(k))

\* the same for the object sets in which following the parents from any
\* object ends at an object without a parent
RECURSIVE Ancestors(_, _)
Ancestors(obj, n) ==
    IF n = 0 \/ ~obj.parent.valid THEN {}
    ELSE LET up == { o \in Range(objects) : o.id.name = obj.parent.id.name }
         IN  up \cup UNION { Ancestors(o, n - 1) : o \in up }

IsForest == \A obj \in Range(objects) : obj \notin Ancestors(obj, Len(objects))

C13_NoRevisitInForest ==
    (request.op = "spawn" /\ request.spawn_children /\ IsForest) =>
        /\ spawn_result # StackOverflow
        /\ \A k \in 1..Len(commands) : Distinct(PathOf(k))

\* the loop of the face being clipped, as read from the record
ClippedLoop == FaceLoopOf(instance, instance.mpoly[fi]).value

\* mesh.rs:65-82: the three positions of `faceloop` one pass reads
CursorReads ==
    LET i0 == IF i >= Len(faceloop) THEN 0 ELSE i
        i1 == IF i0 + 1 >= Len(faceloop) THEN 0 ELSE i0 + 1
        j  == IF i1 + 1 >= Len(faceloop) THEN 0 ELSE i1 + 1
    IN  {i0, i1, j}

\* C14: the ear-clipping loop terminates for every face loop: every pass
\* removes exactly one vertex from the remaining loop, the cursor indexes
\* inside the remaining loop, and the loop stops when exactly 3 vertices
\* remain, after L-3 passes for a loop of length L > 3.  The passes made so
\* far are the triangles in `faces`; their number and the length of the
\* remaining loop add up to L, which bounds the passes.
C14_EarClipTerminates ==
    /\ [](pc = "clip" =>
            /\ Len(faces) + Len(faceloop) = Len(ClippedLoop)
            /\ Len(ClippedLoop) > 3 => Len(faceloop) >= 3
            /\ Len(faceloop) > 3 => CursorReads \subseteq 0..(Len(faceloop) - 1))
    /\ [][(pc = "clip" /\ Len(faceloop) > 3) =>
            /\ pc' = "clip"
            /\ Len(faceloop') = Len(faceloop) - 1
            /\ Len(faces') = Len(faces) + 1
            /\ \E at \in 1..Len(faceloop) :
                  faceloop' = SubSeq(faceloop, 1, at - 1)
                              \o SubSeq(faceloop, at + 1, Len(faceloop))]_vars
    /\ [][(pc = "clip" /\ Len(faceloop) <= 3) => pc' # "clip"]_vars

\* the loop over a face of 7 vertices has stopped: 3 vertices remain after 4
\* passes
C14_Witness ==
    /\ pc = "clip"
    /\ Len(ClippedLoop) = 7
    /\ Len(faceloop) = 3
    /\ Len(faces) = 4

\* the vertex (0-based) is in no face loop of the record
Untouched(v) == \A k \in DOMAIN instance.mloop : instance.mloop[k].v # v

\* C15: with computed normals (major version >= 3) only non-zero
\* accumulated vectors are normalized: a vertex touched by no face, or whose
\* face normals add up to zero, ends with the zero vector as its normal and
\* is not divided by its zero length.
C15_ZeroNormalKept ==
    (pc = "done" /\ result.kind = "Ok" /\ blend_version[1] >= 3) =>
        \A k \in DOMAIN result.value.normals :
            /\ ~IsNaN(result.value.normals[k])
            /\ Untouched(k - 1) => result.value.normals[k] = Zero3

\* the object has mesh data, and the mesh a material array
ChildValid(obj) == obj.data.valid /\ obj.data.mat.valid

\* the object has been spawned as a child of the k-th spawn
SpawnedUnder(obj, k) ==
    \E n \in 1..Len(commands) : commands[n].obj = obj /\ commands[n].parent = k

\* C16: in a spawn with children, a child whose mesh data or material
\* reference is missing or invalid is skipped with a warning, and each of its
\* valid siblings is still spawned under the same parent.
C16_InvalidChildSkipped ==
    (request.op = "spawn" /\ request.spawn_children /\ IsForest /\ spc = "done") =>
        \A k \in 1..Len(commands) :
            \A obj \in Range(get_children(objects, commands[k].obj.id.name)) :
                IF ChildValid(obj)
                THEN SpawnedUnder(obj, k)
                ELSE ~SpawnedUnder(obj, k) /\ log # <<>> /\ spawn_result.kind = "Ok"

\* what does hold: a spawn that returns has spawned every child, and every
\* child was valid
C16_AllChildrenSpawned ==
    (request.op = "spawn" /\ request.spawn_children /\ IsForest
        /\ spc = "done" /\ spawn_result.kind = "Ok") =>
        \A k \in 1..Len(commands) :
            \A obj \in Range(get_children(objects, commands[k].obj.id.name)) :
                ChildValid(obj) /\ SpawnedUnder(obj, k)

\* the material reference the claim gives an object
ExpectedMaterial(obj) ==
    IF ~obj.data.mat.valid \/ obj.data.mat.items = <<>>
    THEN [path |-> request.blender_file \o <<"#">> \o MissingMaterialLabel]
    ELSE [path |-> request.blender_file \o <<"#">> \o obj.data.mat.items[1].id.name]

\* C17: an object whose mesh data has no material list or an empty one is
\* given the fallback label <file>#bevy_blender_missing_material, and any
\* other object the label of its first material slot; for the root and every
\* descendant of a spawn request and for the bundle of new_from_blend.
C17_MaterialReference ==
    /\ \A k \in 1..Len(commands) :
          commands[k].bundle.material = ExpectedMaterial(commands[k].obj)
    /\ (request.op \in {"new", "new_from_blend"} /\ spawn_result.kind = "Ok") =>
          spawn_result.value.material = ExpectedMaterial(RootObject)

\* the part that holds: the entities of a spawn request
C17_SpawnedMaterialReference ==
    \A k \in 1..Len(commands) :
        commands[k].bundle.material = ExpectedMaterial(commands[k].obj)

\* the root and its transitive descendants
Subtree ==
    {RootObject}
    \cup { obj \in Range(objects) : RootObject \in Ancestors(obj, Len(objects)) }

\* exactly one entity for each of the objects, none for any other object,
\* the root without a parent and every other one under the entity of its
\* parent object
OneEntityEach(objs) ==
    /\ \A obj \in objs :
          Cardinality({ k \in 1..Len(commands) : commands[k].obj = obj }) = 1
    /\ \A k \in 1..Len(commands) :
          /\ commands[k].obj \in objs
          /\ IF commands[k].obj = RootObject
             THEN commands[k].parent = 0
             ELSE /\ commands[k].parent > 0
                  /\ commands[commands[k].parent].obj.id.name
                        = commands[k].obj.parent.id.name

\* C18: for an object set that is a forest, a spawn request with children
\* creates exactly one entity for the root and one for each of its transitive
\* descendants, each under the entity of its parent object, and none for an
\* object outside the subtree of the root; without children it creates
\* exactly one entity, the root.
C18_OneEntityPerObject ==
    (request.op = "spawn" /\ BlendRead /\ IsForest /\ ~UnknownRoot /\ spc = "done") =>
        IF request.spawn_children
        THEN OneEntityEach(Subtree)
        ELSE OneEntityEach({RootObject})

\* the same for the requests that return
C18_OneEntityPerObjectOnReturn ==
    (request.op = "spawn" /\ BlendRead /\ IsForest /\ ~UnknownRoot
        /\ spc = "done" /\ spawn_result.kind = "Ok") =>
        IF request.spawn_children
        THEN OneEntityEach(Subtree)
        ELSE OneEntityEach({RootObject})

\* C19: every value of the index buffer of a mesh that instance_to_mesh
\* returns is smaller than the number of positions of that mesh.
C19_IndicesInRange ==
    result.kind = "Ok" =>
        \A k \in DOMAIN result.value.indices :
            result.value.indices[k] < Len(result.value.positions)

\* every loop of the record names a vertex of the record
LoopsInRange ==
    \A k \in DOMAIN instance.mloop : instance.mloop[k].v < Len(instance.mvert)

\* the same for the records whose loops name vertices of the record
C19_IndicesInRangeOfSoundRecord ==
    (result.kind = "Ok" /\ LoopsInRange) =>
        \A k \in DOMAIN result.value.indices :
            result.value.indices[k] < Len(result.value.positions)

\* where the vertex is in the loop (the loop has no vertex twice)
PositionIn(loop, v) == CHOOSE k \in DOMAIN loop : loop[k] = v

\* going round the loop once from a passes b and then c
InCyclicOrder(loop, a, b, c) ==
    LET ka == PositionIn(loop, a)
        kb == PositionIn(loop, b)
        kc == PositionIn(loop, c)
        n  == Len(loop)
    IN  ((kb - ka) % n) + ((kc - kb) % n) + ((ka - kc) % n) = n

\* C20: for a face loop of pairwise distinct vertices every emitted triangle
\* lists its three vertices in the cyclic order of the loop, the index buffer
\* keeps that order (f2,f0,f1 is a rotation), and every vertex of the loop is
\* in at least one emitted triangle.
C20_WindingKept ==
    (FaceEmitted /\ Len(EmittedLoop) >= 3 /\ Distinct(EmittedLoop)) =>
        /\ \A t \in DOMAIN faces :
              InCyclicOrder(EmittedLoop, faces[t][1], faces[t][2], faces[t][3])
        /\ \A m \in 1..(2 * Len(faces)) :
              LET at == Len(indices) - 6 * Len(faces) + 3 * (m - 1)
              IN  InCyclicOrder(EmittedLoop,
                                indices[at + 1], indices[at + 2], indices[at + 3])
        /\ Range(EmittedLoop) \subseteq UNION { Range(faces[t]) : t \in DOMAIN faces }

\* a loop of 6 distinct vertices that starts at vertex 1 and ends at vertex 0
\* has been cut into 4 triangles
C20_Witness ==
    /\ FaceEmitted
    /\ Len(EmittedLoop) = 6
    /\ EmittedLoop[1] = 1
    /\ Distinct(EmittedLoop)
    /\ Len(faces) = 4
    /\ Len(indices) >= 24

\* the labels under which the assets of the loaded file can be asked for
PublishedLabels == { load_path \o <<"#">> \o l : l \in DOMAIN labeled }

\* the name part of a label begins with ME_ or MA_
UnderscoredLabel(label) ==
    LET name == SubSeq(label, Len(request.blender_file) + 2, Len(label))
    IN  Len(name) >= 3 /\ name[3] = "_" /\ name[1] = "M"

\* C21: every mesh label and material label a spawn request asks the asset
\* server for is a label that a successful load of the same file publishes,
\* for the root and for every descendant.
C21_RequestedArePublished ==
    (lpc = "done" /\ load_result.kind = "Ok") =>
        \A n \in 1..Len(asset_loads) : asset_loads[n] \in PublishedLabels

\* the same for the labels whose name does not begin with ME_ or MA_
C21_RequestedArePublishedUnlessUnderscored ==
    (lpc = "done" /\ load_result.kind = "Ok") =>
        \A n \in 1..Len(asset_loads) :
            ~UnderscoredLabel(asset_loads[n]) => asset_loads[n] \in PublishedLabels

=============================================================================
